---- MODULE Spec2Model ----
(***************************************************************************)
(* A model of the A/B testing platform: hash bucketing and aggregation     *)
(* (lib/bucketing.py), the two-proportion z-test in batch and sequential   *)
(* mode (lib/frequentist.py, lib/frequentist/frequentist_ab_test.py), the  *)
(* multiple-testing corrections (lib/corrections.py) and the command-line  *)
(* pipeline that chains them (pipeline.py).                                *)
(*                                                                         *)
(* Numbers.  Floats are modelled by scaled integers:                       *)
(*   - a p-value p is the integer p * PScale (1.0 is PScale);              *)
(*   - a z statistic z is the integer trunc(z * ZScale);                   *)
(*   - a corrected p-value is a pair: the integer c * PScale * RankLcm of   *)
(*     the real number c the correction computes (exact for every product  *)
(*     p*m/rank), and the number of units in the last place by which the   *)
(*     double the code returns differs from the double nearest to c;       *)
(*   - NaN is the sentinel NaN, and every comparison with it is false;     *)
(*     an infinite statistic is Inf or -Inf.                               *)
(* The normal survival function 1 - Phi(z) is tabulated in NormSfTable at  *)
(* steps of 1/ZScale.  The rounding of binary floating point is modelled   *)
(* where a claim compares two results that are equal as real numbers (the  *)
(* corrections); elsewhere the arithmetic on these integers is exact.      *)
(***************************************************************************)
EXTENDS Integers, Sequences, FiniteSets, TLC

\* ------------------------------------------------------------------ bounds
\* Longest list of user records given to the pipeline.
MaxUsers == 3
\* Longest p-value vector given to MultipleTestingCorrection.
MaxM == 4
\* Largest trial count of one arm in the sequential test.
MaxTrials == 4

\* ------------------------------------------------- number representation
PScale == 10000
ZScale == 100
Inf == 1000000
NaN == 2000000

Min(a, b) == IF a <= b THEN a ELSE b
Abs(a) == IF a < 0 THEN -a ELSE a

RECURSIVE Fact(_)
Fact(n) == IF n <= 1 THEN 1 ELSE n * Fact(n - 1)

\* Every rank 1..m of a vector the model handles divides RankLcm.
RankLcm == Fact(MaxM)

RECURSIVE SqrtSearch(_, _, _)
SqrtSearch(n, lo, hi) ==
    IF lo >= hi THEN lo
    ELSE LET mid == (lo + hi + 1) \div 2
         IN  IF mid * mid <= n THEN SqrtSearch(n, mid, hi)
             ELSE SqrtSearch(n, lo, mid - 1)

\* np.sqrt on a non-negative number, truncated: the largest r with r*r <= n.
ISqrt(n) == SqrtSearch(n, 0, Min(n, 46340))

\* scipy.stats.norm: 1 - cdf(k / ZScale), in units of 1/PScale, k = 0..400.
NormSfTable == <<
    5000, 4960, 4920, 4880, 4840, 4801, 4761, 4721, 4681, 4641,
    4602, 4562, 4522, 4483, 4443, 4404, 4364, 4325, 4286, 4247,
    4207, 4168, 4129, 4090, 4052, 4013, 3974, 3936, 3897, 3859,
    3821, 3783, 3745, 3707, 3669, 3632, 3594, 3557, 3520, 3483,
    3446, 3409, 3372, 3336, 3300, 3264, 3228, 3192, 3156, 3121,
    3085, 3050, 3015, 2981, 2946, 2912, 2877, 2843, 2810, 2776,
    2743, 2709, 2676, 2643, 2611, 2578, 2546, 2514, 2483, 2451,
    2420, 2389, 2358, 2327, 2296, 2266, 2236, 2206, 2177, 2148,
    2119, 2090, 2061, 2033, 2005, 1977, 1949, 1922, 1894, 1867,
    1841, 1814, 1788, 1762, 1736, 1711, 1685, 1660, 1635, 1611,
    1587, 1562, 1539, 1515, 1492, 1469, 1446, 1423, 1401, 1379,
    1357, 1335, 1314, 1292, 1271, 1251, 1230, 1210, 1190, 1170,
    1151, 1131, 1112, 1093, 1075, 1056, 1038, 1020, 1003, 985,
    968, 951, 934, 918, 901, 885, 869, 853, 838, 823,
    808, 793, 778, 764, 749, 735, 721, 708, 694, 681,
    668, 655, 643, 630, 618, 606, 594, 582, 571, 559,
    548, 537, 526, 516, 505, 495, 485, 475, 465, 455,
    446, 436, 427, 418, 409, 401, 392, 384, 375, 367,
    359, 351, 344, 336, 329, 322, 314, 307, 301, 294,
    287, 281, 274, 268, 262, 256, 250, 244, 239, 233,
    228, 222, 217, 212, 207, 202, 197, 192, 188, 183,
    179, 174, 170, 166, 162, 158, 154, 150, 146, 143,
    139, 136, 132, 129, 125, 122, 119, 116, 113, 110,
    107, 104, 102, 99, 96, 94, 91, 89, 87, 84,
    82, 80, 78, 75, 73, 71, 69, 68, 66, 64,
    62, 60, 59, 57, 55, 54, 52, 51, 49, 48,
    47, 45, 44, 43, 41, 40, 39, 38, 37, 36,
    35, 34, 33, 32, 31, 30, 29, 28, 27, 26,
    26, 25, 24, 23, 23, 22, 21, 21, 20, 19,
    19, 18, 18, 17, 16, 16, 15, 15, 14, 14,
    13, 13, 13, 12, 12, 11, 11, 11, 10, 10,
    10, 9, 9, 9, 8, 8, 8, 8, 7, 7,
    7, 7, 6, 6, 6, 6, 6, 5, 5, 5,
    5, 5, 5, 4, 4, 4, 4, 4, 4, 3,
    3, 3, 3, 3, 3, 3, 3, 3, 3, 2,
    2, 2, 2, 2, 2, 2, 2, 2, 2, 2,
    2, 2, 1, 1, 1, 1, 1, 1, 1, 1,
    1, 1, 1, 1, 1, 1, 1, 1, 1, 1,
    1, 1, 1, 1, 1, 1, 1, 1, 1, 1,
    0, 0, 0, 0, 0, 0, 0, 0, 0, 0,
    0
>>

\* 1 - st.norm.cdf(|z|) for a statistic z in units of 1/ZScale.
NormSf(absz) == IF absz + 1 > Len(NormSfTable) THEN 0 ELSE NormSfTable[absz + 1]

\* Python float comparison a < b: false when either side is NaN.
FloatLt(a, b) == a # NaN /\ b # NaN /\ a < b

\* ---------------------------------------------------------------- bucketing
BucketCount == 100

\* int(hashlib.sha256(str(user_id).encode("utf-8")).hexdigest(), 16) modulo
\* 10^6, for user_id = 1..12 (BucketCount divides 10^6).
Sha256Low == <<922315, 159861, 321678, 157322, 823453, 414403,
               514449, 831459, 503287, 103317, 365048, 240536>>

bucket_user(user_id, bucket_count) == Sha256Low[user_id] % bucket_count

\* b in range(lo, hi)
InRange(b, lo, hi) == lo <= b /\ b < hi

\* The value standing for "raise ValueError" in assign_to_group.
NoGroup == "<unassigned>"

\* A plausible slip: let a later range of the map override an earlier one.
RECURSIVE LastMatch(_, _, _)
LastMatch(user_bucket, group_buckets, k) ==
    IF k > Len(group_buckets) THEN NoGroup
    ELSE LET later == LastMatch(user_bucket, group_buckets, k + 1)
         IN  IF later # NoGroup THEN later
             ELSE IF InRange(user_bucket, group_buckets[k].lo, group_buckets[k].hi)
                  THEN group_buckets[k].group
                  ELSE NoGroup

\* for group, bucket_range in group_buckets.items(): the group of the first
\* range, from place k on, that contains the bucket.
RECURSIVE FirstMatch(_, _, _)
FirstMatch(user_bucket, group_buckets, k) ==
    IF k > Len(group_buckets) THEN NoGroup
    ELSE IF InRange(user_bucket, group_buckets[k].lo, group_buckets[k].hi)
         THEN group_buckets[k].group
         ELSE FirstMatch(user_bucket, group_buckets, k + 1)

\* A plausible slip: fall through to the last group instead of raising.
AssignToGroupFallthrough(user_id, group_buckets) ==
    LET g == FirstMatch(bucket_user(user_id, BucketCount), group_buckets, 1)
    IN  IF g = NoGroup THEN group_buckets[Len(group_buckets)].group ELSE g

\* A plausible slip: put a user no range contains into the control group.
AssignToGroupDefaultControl(user_id, group_buckets) ==
    LET g == FirstMatch(bucket_user(user_id, BucketCount), group_buckets, 1)
    IN  IF g = NoGroup THEN "control" ELSE g

\* assign_to_group: the group of the first range that contains the user's
\* bucket; NoGroup stands for the ValueError raised after the loop.
assign_to_group(user_id, group_buckets) ==
    FirstMatch(bucket_user(user_id, BucketCount), group_buckets, 1)

GroupNames(group_buckets) == {group_buckets[k].group : k \in 1..Len(group_buckets)}

ZeroCounts(group_buckets) ==
    [g \in GroupNames(group_buckets) |-> [success |-> 0, trials |-> 0]]

\* A plausible slip: count a success for every record.
FoldCountsEveryRecord(counts, g, event) ==
    [counts EXCEPT ![g] = [success |-> @.success + 1, trials |-> @.trials + 1]]

\* A plausible slip: assign the outcome to the success count instead of adding it.
FoldOverwriteSuccess(counts, g, event) ==
    [counts EXCEPT ![g] = [success |-> event, trials |-> @.trials + 1]]

\* A plausible slip: the two increments exchanged.
FoldIncrementsExchanged(counts, g, event) ==
    [counts EXCEPT ![g] = [success |-> @.success + 1, trials |-> @.trials + event]]

\* group_results[group]["trials"] += 1; group_results[group]["success"] += event
FoldRecord(counts, g, event) ==
    [counts EXCEPT ![g] = [success |-> @.success + event, trials |-> @.trials + 1]]

\* The aggregation loop of run_experiment over the first k records of a list
\* whose records can all be assigned: the counts it leaves in group_results.
RECURSIVE AggregateUpTo(_, _, _)
AggregateUpTo(records, group_buckets, k) ==
    IF k = 0 THEN ZeroCounts(group_buckets)
    ELSE FoldRecord(AggregateUpTo(records, group_buckets, k - 1),
                    assign_to_group(records[k].user_id, group_buckets),
                    records[k].event)

\* A plausible slip: leave the loop one record early.
LoopExhaustedEarly(k, n) == k + 1 >= n

\* The for loop over user_data has consumed all n records after k iterations.
LoopExhausted(k, n) == k = n

\* ------------------------------------------------------ frequentist z-test
\* A plausible slip: accept the end points of the interval.
ValidateHypothesisInclusive(alt_hypothesis, alpha) ==
    IF alt_hypothesis \notin {"one_tailed", "two_tailed"} THEN "ValueError"
    ELSE IF ~(0 <= alpha /\ alpha <= PScale) THEN "ValueError"
    ELSE "ok"

\* validate_hypothesis: "ok", or the ValueError it raises.
validate_hypothesis(alt_hypothesis, alpha) ==
    IF alt_hypothesis \notin {"one_tailed", "two_tailed"} THEN "ValueError"
    ELSE IF ~(0 < alpha /\ alpha < PScale) THEN "ValueError"
    ELSE "ok"

\* st.norm.cdf(z) for a finite or infinite statistic z.
NormCdf(z) == IF z >= 0 THEN PScale - NormSf(z) ELSE NormSf(-z)

\* calculate_pvalue: NaN in, NaN out.
calculate_pvalue(stat, alt_hypothesis) ==
    IF stat = NaN THEN NaN
    ELSE IF alt_hypothesis = "one_tailed"
         THEN IF stat > 0 THEN PScale - NormCdf(Abs(stat)) ELSE NormCdf(stat)
         ELSE 2 * (PScale - NormCdf(Abs(stat)))

\* (prop_alt - prop_null) / se_pooled of batch mode, for positive trial
\* counts.  With S = success_null + success_alt and T = trials_null +
\* trials_alt, z^2 = d^2 * T / (trials_null * trials_alt * S * (T - S)) where
\* d = success_alt * trials_null - success_null * trials_alt.  se_pooled is 0
\* when S * (T - S) = 0 (0/0 is NaN, x/0 is +-inf) and NaN when it is negative.
BatchStat(success_null, trials_null, success_alt, trials_alt) ==
    LET S == success_null + success_alt
        T == trials_null + trials_alt
        d == success_alt * trials_null - success_null * trials_alt
        v == trials_null * trials_alt * S * (T - S)
    IN  IF v < 0 THEN NaN
        ELSE IF v = 0 THEN (IF d = 0 THEN NaN ELSE IF d > 0 THEN Inf ELSE -Inf)
        ELSE LET a == ISqrt((ZScale * ZScale * d * d * T) \div v)
             IN  IF d >= 0 THEN a ELSE -a

\* A plausible slip: divide as numpy floats do, so that an empty arm yields a
\* NaN or infinite statistic instead of raising.
ConductExperimentFloatDivision(alpha, alt_hypothesis, success_null, trials_null, success_alt, trials_alt) ==
    IF validate_hypothesis(alt_hypothesis, alpha) # "ok"
    THEN [error |-> "ValueError", stat |-> NaN, pvalue |-> NaN]
    ELSE LET stat == BatchStat(success_null, trials_null, success_alt, trials_alt)
         IN  [error |-> "none", stat |-> stat,
              pvalue |-> calculate_pvalue(stat, alt_hypothesis)]

\* FrequentistABTest(alpha, alt_hypothesis).conduct_experiment(...) of
\* lib/frequentist.py: the pair (stat, pvalue), or the error it raises.
conduct_experiment(alpha, alt_hypothesis, success_null, trials_null, success_alt, trials_alt) ==
    IF validate_hypothesis(alt_hypothesis, alpha) # "ok"
    THEN [error |-> "ValueError", stat |-> NaN, pvalue |-> NaN]
    ELSE IF trials_null = 0 \/ trials_alt = 0
    THEN [error |-> "ZeroDivisionError", stat |-> NaN, pvalue |-> NaN]
    ELSE LET stat == BatchStat(success_null, trials_null, success_alt, trials_alt)
         IN  [error |-> "none", stat |-> stat,
              pvalue |-> calculate_pvalue(stat, alt_hypothesis)]

\* ------------------------------------------------- multiple-testing helpers
Indices(p) == 1..Len(p)

SetMax(S) == CHOOSE x \in S : \A y \in S : y <= x
SetMin(S) == CHOOSE x \in S : \A y \in S : x <= y

HasNaN(p) == \E i \in Indices(p) : p[i] = NaN

\* How many entries of p are numbers below x / at most x.
NumLess(p, x) == Cardinality({l \in Indices(p) : p[l] # NaN /\ p[l] < x})
NumLeq(p, x) == Cardinality({l \in Indices(p) : p[l] # NaN /\ p[l] <= x})

\* 1.0 in the unit of corrected p-values.
COne == PScale * RankLcm

\* statsmodels multipletests(p, method="bonferroni")[1]
SmBonferroni(p) ==
    [i \in Indices(p) |->
        IF p[i] = NaN THEN NaN ELSE Min(p[i] * Len(p), PScale) * RankLcm]

\* statsmodels multipletests(p, method="holm")[1]: the k-th smallest p-value
\* times (m-k+1), running maximum over increasing rank, capped at 1; NaN
\* sorts last and stays NaN.
SmHolm(p) ==
    [i \in Indices(p) |->
        IF p[i] = NaN THEN NaN
        ELSE Min(COne, SetMax({p[j] * (Len(p) - NumLess(p, p[j])) * RankLcm :
                                 j \in {l \in Indices(p) : p[l] # NaN /\ p[l] <= p[i]}}))]

\* statsmodels multipletests(p, method="fdr_bh")[1]: the k-th smallest p-value
\* times m/k, running minimum from the largest rank down, capped at 1; a NaN
\* sorts last and the running minimum carries it to every entry.
SmFdrBh(p) ==
    [i \in Indices(p) |->
        IF HasNaN(p) THEN NaN
        ELSE Min(COne, SetMin({(p[j] * Len(p) * RankLcm) \div NumLeq(p, p[j]) :
                                 j \in {l \in Indices(p) : p[l] >= p[i]}}))]

CorrectionMethods == {"bonferroni", "fdr_bh", "holm"}

\* MultipleTestingCorrection(p).apply_statsmodels_corrections(method)
apply_statsmodels_corrections(p, method) ==
    IF method = "bonferroni" THEN SmBonferroni(p)
    ELSE IF method = "holm" THEN SmHolm(p)
    ELSE SmFdrBh(p)

\* ------------------------------------------------------------------- state
VARIABLES
    \* pipeline.run_experiment and UserBucketingABTest.run_experiment
    method,             \* the testing method read from the prompt
    alpha,              \* significance level (self.alpha)
    user_data,          \* the list of {user_id, event} records
    group_buckets,      \* the ordered map group -> range(lo, hi)
    group_results,      \* group -> {success, trials}
    idx,                \* how many records the aggregation loop has folded
    group,              \* the loop's local: the group of the last record
    test_groups,        \* the groups other than "control", in map order
    results,            \* run_frequentist_test's results, in insertion order
    result_keys,        \* the keys of the object pipeline's name `result` is bound to
    r_idx,              \* how many results the pipeline has shown
    p_values,           \* the p-values the pipeline has collected
    corrected,          \* the (name, corrected p-value) lines the pipeline printed
    pc,                 \* where the pipeline is
    error               \* the exception that ended the run, or "none"

pipeVars == <<method, alpha, user_data, group_buckets, group_results, idx, group,
              test_groups, results, result_keys, r_idx, p_values, corrected, pc, error>>

\* ------------------------------------------------------------------ inputs
\* click.prompt("Enter alpha (significance level)", default=0.05)
DefaultAlpha == 500

Events == {0, 1, 2}
\* Three users whose buckets are 15, 61 and 78.
UserIds == {1, 2, 3}
UserRecords == [user_id : UserIds, event : Events]
UserLists == UNION {[1..n -> UserRecords] : n \in 0..MaxUsers}

Range(g, lo, hi) == [group |-> g, lo |-> lo, hi |-> hi]

\* The docstring's three-way split, a two-way split, a map with a gap, a map
\* with overlapping ranges, and the three-way split listed in another order,
\* the control in the middle.
GroupBucketMaps == {
    <<Range("control", 0, 50), Range("test1", 50, 100)>>,
    <<Range("control", 0, 50), Range("test1", 50, 75), Range("test2", 75, 100)>>,
    <<Range("control", 0, 50), Range("test1", 50, 70)>>,
    <<Range("control", 0, 50), Range("test1", 10, 70), Range("test2", 60, 100)>>,
    <<Range("test2", 75, 100), Range("control", 0, 50), Range("test1", 50, 75)>> }

Methods == {"frequentist", "bayesian", "other"}

\* The keys of one entry of run_frequentist_test's results, in insertion order.
FrequentistFields == <<"method", "statistic", "p_value", "control_success",
                       "control_trials", "test_success", "test_trials">>
BayesianFields == <<"method", "control_success", "control_trials",
                    "test_success", "test_trials">>

\* zip(keys, values)
Zip(keys, values) ==
    [k \in 1..Min(Len(keys), Len(values)) |-> [name |-> keys[k], value |-> values[k]]]

\* A plausible slip: test every group of the map, the control included.
TestGroupsUnfiltered(gb) == [k \in 1..Len(gb) |-> gb[k].group]

\* [group for group in group_results.keys() if group != "control"]
TestGroups(gb) ==
    LET names == [k \in 1..Len(gb) |-> gb[k].group]
        NotControl(g) == g # "control"
    IN  SelectSeq(names, NotControl)

PipeInit ==
    /\ method \in Methods
    /\ alpha = DefaultAlpha
    /\ user_data \in UserLists
    /\ group_buckets \in GroupBucketMaps
    /\ group_results = <<>>
    /\ idx = 0
    /\ group = NoGroup
    /\ test_groups = <<>>
    /\ results = <<>>
    /\ result_keys = <<>>
    /\ r_idx = 0
    /\ p_values = <<>>
    /\ corrected = <<>>
    /\ pc = "prompt"
    /\ error = "none"

\* ----------------------------------------------------------------- actions
\* pipeline.run_experiment: read the method; an unknown one ends the run.
\* Otherwise UserBucketingABTest.run_experiment starts with zero counts.
Prompt ==
    /\ pc = "prompt"
    /\ IF method \notin {"frequentist", "bayesian"}
       THEN /\ pc' = "done"
            /\ UNCHANGED group_results
       ELSE /\ pc' = "aggregate"
            /\ group_results' = ZeroCounts(group_buckets)
    /\ UNCHANGED <<method, alpha, user_data, group_buckets, idx, group, test_groups,
                   results, result_keys, r_idx, p_values, corrected, error>>

\* One iteration of the aggregation loop.
AggregateStep ==
    /\ pc = "aggregate"
    /\ ~LoopExhausted(idx, Len(user_data))
    /\ LET user == user_data[idx + 1]
           g == assign_to_group(user.user_id, group_buckets)
       IN  IF g = NoGroup
           THEN /\ pc' = "error"
                /\ error' = "ValueError: User not assigned to a valid group."
                /\ UNCHANGED <<group_results, idx, group>>
           ELSE /\ group' = g
                /\ group_results' = FoldRecord(group_results, g, user.event)
                /\ idx' = idx + 1
                /\ UNCHANGED <<pc, error>>
    /\ UNCHANGED <<method, alpha, user_data, group_buckets, test_groups, results,
                   result_keys, r_idx, p_values, corrected>>

\* The loop is over: dispatch on self.method.
Dispatch ==
    /\ pc = "aggregate"
    /\ LoopExhausted(idx, Len(user_data))
    /\ pc' = method
    /\ test_groups' = TestGroups(group_buckets)
    /\ UNCHANGED <<method, alpha, user_data, group_buckets, group_results, idx, group,
                   results, result_keys, r_idx, p_values, corrected, error>>

\* run_frequentist_test: the test of the next test group against the control.
FrequentistTestStep ==
    /\ pc = "frequentist"
    /\ Len(results) < Len(test_groups)
    /\ LET test_group == test_groups[Len(results) + 1]
           control_success == group_results["control"].success
           control_trials == group_results["control"].trials
           test_success == group_results[test_group].success
           test_trials == group_results[test_group].trials
           r == conduct_experiment(alpha, "two_tailed", control_success,
                                   control_trials, test_success, test_trials)
       IN  IF r.error # "none"
           THEN /\ pc' = "error"
                /\ error' = r.error
                /\ UNCHANGED results
           ELSE /\ results' = Append(results,
                        [group |-> test_group, method |-> "frequentist",
                         statistic |-> r.stat, p_value |-> r.pvalue,
                         control_success |-> control_success,
                         control_trials |-> control_trials,
                         test_success |-> test_success,
                         test_trials |-> test_trials])
                /\ UNCHANGED <<pc, error>>
    /\ UNCHANGED <<method, alpha, user_data, group_buckets, group_results, idx, group,
                   test_groups, result_keys, r_idx, p_values, corrected>>

\* run_bayesian_test: the sampler is an external collaborator; the entry keeps
\* the counts it was given.
BayesianTestStep ==
    /\ pc = "bayesian"
    /\ Len(results) < Len(test_groups)
    /\ LET test_group == test_groups[Len(results) + 1]
       IN  results' = Append(results,
               [group |-> test_group, method |-> "bayesian",
                control_success |-> group_results["control"].success,
                control_trials |-> group_results["control"].trials,
                test_success |-> group_results[test_group].success,
                test_trials |-> group_results[test_group].trials])
    /\ UNCHANGED <<method, alpha, user_data, group_buckets, group_results, idx, group,
                   test_groups, result_keys, r_idx, p_values, corrected, pc, error>>

\* The results are returned to the pipeline, which binds them to `result`.
ReturnResults ==
    /\ pc \in {"frequentist", "bayesian"}
    /\ Len(results) = Len(test_groups)
    /\ pc' = "show"
    /\ result_keys' = test_groups
    /\ UNCHANGED <<method, alpha, user_data, group_buckets, group_results, idx, group,
                   test_groups, results, r_idx, p_values, corrected, error>>

\* A plausible slip: leave the loop over the results one entry early.
ShowLoopExhaustedEarly(k, n) == k + 1 >= n

\* The loop over result.items() has shown k of the n entries and is over.
ShowLoopExhausted(k, n) == k = n

\* for test_group, result in result.items(): show one entry and collect its
\* p-value.  The loop variable rebinds the name `result` to that entry.
ShowStep ==
    /\ pc = "show"
    /\ ~ShowLoopExhausted(r_idx, Len(results))
    /\ r_idx' = r_idx + 1
    /\ IF method = "frequentist"
       THEN /\ p_values' = Append(p_values, results[r_idx + 1].p_value)
            /\ result_keys' = FrequentistFields
       ELSE /\ result_keys' = BayesianFields
            /\ UNCHANGED p_values
    /\ UNCHANGED <<method, alpha, user_data, group_buckets, group_results, idx, group,
                   test_groups, results, corrected, pc, error>>

\* After the loop: correct the collected p-values when there are several, and
\* print each corrected value beside a key of `result`.
Correct ==
    /\ pc = "show"
    /\ ShowLoopExhausted(r_idx, Len(results))
    /\ IF method = "frequentist" /\ Len(p_values) > 1
       THEN \E correction_method \in CorrectionMethods \cup {"other"} :
               IF correction_method \in CorrectionMethods
               THEN /\ corrected' = Zip(result_keys,
                          apply_statsmodels_corrections(p_values, correction_method))
                    /\ pc' = "done"
                    /\ UNCHANGED error
               ELSE /\ pc' = "error"
                    /\ error' = "ValueError: method not recognized"
                    /\ UNCHANGED corrected
       ELSE /\ pc' = "done"
            /\ UNCHANGED <<corrected, error>>
    /\ UNCHANGED <<method, alpha, user_data, group_buckets, group_results, idx, group,
                   test_groups, results, result_keys, r_idx, p_values>>

\* ------------------------------------- FrequentistABTest, sequential version
VARIABLES
    alt_hypothesis,     \* self.alt_hypothesis
    sequential,         \* the sequential argument
    stopping_threshold, \* the stopping_threshold argument
    success_null, trials_null, success_alt, trials_alt,
    prop_null, prop_alt,\* self.prop_null, self.prop_alt
    stat,               \* self.stat
    pvalue,             \* self.pvalue
    i,                  \* the loop index of sequential mode
    evaluated,          \* the p-values computed by the loop, in order (history)
    stopped_at,         \* the index printed by "Stopping early at trial", or 0
    returned,           \* the dictionary get_freq_results returned
    seq_pc,             \* where the test object is
    seq_error           \* the exception raised, or "none"

seqVars == <<alt_hypothesis, sequential, stopping_threshold, success_null, trials_null,
             success_alt, trials_alt, prop_null, prop_alt, stat, pvalue, i, evaluated,
             stopped_at, returned, seq_pc, seq_error>>

\* str.lower() on the hypothesis names the model passes in.
Lower(s) == IF s = "Two_Tailed" THEN "two_tailed" ELSE s

\* success / trials as a float, in units of 1/PScale.
Proportion(success, trials) == (success * PScale) \div trials

\* int(i * (success / (trials_null + trials_alt)))
InterpolatedSuccess(k, success, total) == (k * success) \div total

\* stat_i of the loop body at index k: with s = success_null_i + success_alt_i
\* and d = success_alt_i - success_null_i, z^2 = 2 * k * d^2 / (s * (2k - s));
\* NaN when se_pooled_i is 0 or NaN.
SeqStat(k, sn, sa, total) ==
    LET sn_i == InterpolatedSuccess(k, sn, total)
        sa_i == InterpolatedSuccess(k, sa, total)
        s == sn_i + sa_i
        d == sa_i - sn_i
        v == s * (2 * k - s)
    IN  IF v <= 0 THEN NaN
        ELSE LET a == ISqrt((ZScale * ZScale * 2 * k * d * d) \div v)
             IN  IF d >= 0 THEN a ELSE -a

SeqPvalue(k, sn, sa, total, alt) == calculate_pvalue(SeqStat(k, sn, sa, total), alt)

\* A plausible slip: one index too many, range(1, total + 2).
SeqLoopExhaustedLate(k, total) == k = total + 1

\* for i in range(1, trials_null + trials_alt + 1): the range is exhausted
\* after index k = total.
SeqLoopExhausted(k, total) == k = total

\* A plausible slip: compare the sentinel as a number, so that NaN stops the loop.
ShouldStopIgnoringNaN(pvalue_i, threshold) == pvalue_i = NaN \/ pvalue_i < threshold

\* if pvalue_i < stopping_threshold: break
ShouldStop(pvalue_i, threshold) == FloatLt(pvalue_i, threshold)

Alphas == {0, DefaultAlpha, PScale}
Hypotheses == {"one_tailed", "two_tailed", "Two_Tailed", "greater"}
Thresholds == {500, 5000}
Counts == {c \in [s : 0..MaxTrials, t : 0..MaxTrials] : c.s <= c.t}

NotSet == <<>>

SeqInit ==
    /\ alpha \in Alphas
    /\ alt_hypothesis \in Hypotheses
    /\ sequential \in BOOLEAN
    /\ stopping_threshold \in (IF sequential THEN Thresholds ELSE {500})
    /\ \E n \in Counts, a \in Counts :
          /\ success_null = n.s /\ trials_null = n.t
          /\ success_alt = a.s /\ trials_alt = a.t
    /\ prop_null = NaN /\ prop_alt = NaN
    /\ stat = NaN /\ pvalue = NaN
    /\ i = 0
    /\ evaluated = <<>>
    /\ stopped_at = 0
    /\ returned = NotSet
    /\ seq_pc = "new"
    /\ seq_error = "none"

\* __init__: lower-case the hypothesis and validate.
Construct ==
    /\ seq_pc = "new"
    /\ alt_hypothesis' = Lower(alt_hypothesis)
    /\ IF validate_hypothesis(Lower(alt_hypothesis), alpha) = "ok"
       THEN seq_pc' = "constructed" /\ UNCHANGED seq_error
       ELSE seq_pc' = "error" /\ seq_error' = "ValueError"
    /\ UNCHANGED <<alpha, sequential, stopping_threshold, success_null, trials_null,
                   success_alt, trials_alt, prop_null, prop_alt, stat, pvalue, i,
                   evaluated, stopped_at, returned>>

\* conduct_experiment up to the mode switch: the proportions and the statistic
\* of the full data, and in batch mode the p-value.
Conduct ==
    /\ seq_pc = "constructed"
    /\ IF trials_null = 0 \/ trials_alt = 0
       THEN /\ seq_pc' = "error"
            /\ seq_error' = "ZeroDivisionError"
            /\ prop_null' = IF trials_null = 0 THEN prop_null
                            ELSE Proportion(success_null, trials_null)
            /\ UNCHANGED <<prop_alt, stat, pvalue>>
       ELSE /\ prop_null' = Proportion(success_null, trials_null)
            /\ prop_alt' = Proportion(success_alt, trials_alt)
            /\ stat' = BatchStat(success_null, trials_null, success_alt, trials_alt)
            /\ IF sequential
               THEN seq_pc' = "loop" /\ UNCHANGED pvalue
               ELSE /\ seq_pc' = "computed"
                    /\ pvalue' = calculate_pvalue(stat', alt_hypothesis)
            /\ UNCHANGED seq_error
    /\ UNCHANGED <<alpha, alt_hypothesis, sequential, stopping_threshold, success_null,
                   trials_null, success_alt, trials_alt, i, evaluated, stopped_at,
                   returned>>

\* One iteration of the sequential loop.
LoopStep ==
    /\ seq_pc = "loop"
    /\ ~SeqLoopExhausted(i, trials_null + trials_alt)
    /\ i' = i + 1
    /\ LET pvalue_i == SeqPvalue(i + 1, success_null, success_alt,
                                 trials_null + trials_alt, alt_hypothesis)
       IN  /\ pvalue' = pvalue_i
           /\ evaluated' = Append(evaluated, pvalue_i)
           /\ IF ShouldStop(pvalue_i, stopping_threshold)
              THEN stopped_at' = i + 1 /\ seq_pc' = "computed"
              ELSE UNCHANGED <<stopped_at, seq_pc>>
    /\ UNCHANGED <<alpha, alt_hypothesis, sequential, stopping_threshold, success_null,
                   trials_null, success_alt, trials_alt, prop_null, prop_alt, stat,
                   returned, seq_error>>

\* The range of the loop is exhausted.
LoopEnd ==
    /\ seq_pc = "loop"
    /\ SeqLoopExhausted(i, trials_null + trials_alt)
    /\ seq_pc' = "computed"
    /\ UNCHANGED <<alpha, alt_hypothesis, sequential, stopping_threshold, success_null,
                   trials_null, success_alt, trials_alt, prop_null, prop_alt, stat,
                   pvalue, i, evaluated, stopped_at, returned, seq_error>>

\* return self.get_freq_results()
GetFreqResults ==
    /\ seq_pc = "computed"
    /\ returned' =
          [version_a |-> [success |-> success_null, trials |-> trials_null,
                          proportion |-> prop_null],
           version_b |-> [success |-> success_alt, trials |-> trials_alt,
                          proportion |-> prop_alt],
           statistic |-> stat,
           pvalue |-> pvalue,
           significant |-> FloatLt(pvalue, alpha)]
    /\ seq_pc' = "returned"
    /\ UNCHANGED <<alpha, alt_hypothesis, sequential, stopping_threshold, success_null,
                   trials_null, success_alt, trials_alt, prop_null, prop_alt, stat,
                   pvalue, i, evaluated, stopped_at, seq_error>>

\* ---------------------------------------------- MultipleTestingCorrection
VARIABLES
    mtc_p_values,       \* self.p_values
    argsort_rank,       \* the ranks np.argsort(self.p_values) gives on this build
    bonferroni_out,     \* what bonferroni_correction returned
    bh_out,             \* what benjamini_hochberg_correction returned
    holm_out            \* what holm_correction returned

corrVars == <<mtc_p_values, argsort_rank, bonferroni_out, bh_out, holm_out>>

\* A double is carried through a correction as one integer, its real value
\* in units of 1/COne times UlpScale plus its rounding error in units in the
\* last place, so that the order of these integers is the order of the
\* doubles: doubles of different real values differ by far more than their
\* rounding errors.
UlpScale == 8
Float(real, ulps) == real * UlpScale + ulps
RealOf(x) == (x + UlpScale \div 2) \div UlpScale
UlpsOf(x) == x - RealOf(x) * UlpScale
RealsOf(v) == [k \in Indices(v) |-> RealOf(v[k])]
AllUlpsOf(v) == [k \in Indices(v) |-> UlpsOf(v[k])]

\* The rounding error of the IEEE double product p * c, in units in the last
\* place: the double Python computes for float(p) * c minus the double
\* nearest to the real product.  Computed for the p-values of PValues and
\* c = 1..6: only 0.05 * 3 = 0.15000000000000002 and
\* 0.05 * 6 = 0.30000000000000004 are not the nearest double.
MulUlps(p, c) == IF p = 500 /\ c \in {3, 6} THEN 1 ELSE 0

\* The rounding error of the IEEE double (p * m) / rank, in units in the
\* last place, for the p-values of PValues and 1 <= rank <= m <= 6: e.g.
\* 0.05 * 3 / 3 = 0.05000000000000001 and 0.03 * 5 / 3 = 0.049999999999999996.
MulDivUlps(p, m, rank) ==
    IF p = 500 /\ m = 3 THEN 1
    ELSE IF p = 500 /\ m = 6 THEN (IF rank = 5 THEN 2 ELSE 1)
    ELSE IF p = 300 /\ m = 5 /\ rank = 3 THEN -1
    ELSE 0

\* The double p * c and the double p * m / rank.
FloatMul(p, c) == Float(p * c * RankLcm, MulUlps(p, c))
FloatMulDiv(p, m, rank) == Float((p * m * RankLcm) \div rank, MulDivUlps(p, m, rank))

\* The running minimum of a vector: np.minimum.accumulate.
CumMin(v) == [k \in Indices(v) |-> SetMin({v[j] : j \in 1..k})]

\* np.minimum(v, 1.0) on doubles
CapAtOne(v) == [k \in Indices(v) |-> Min(v[k], Float(COne, 0))]

\* The ascending ranks np.argsort can give the entries of p: rank[k] is the
\* place of index k in the sorted order.  The default sort is not stable:
\* equal entries may come out in any order, so their ranks are any arrangement
\* of the places they share.  The same vector gives the same order every time.
RECURSIVE RankChoices(_, _)
RankChoices(p, k) ==
    IF k = 0 THEN {<<>>}
    ELSE {Append(r, x) :
            r \in RankChoices(p, k - 1),
            x \in (NumLess(p, p[k]) + 1)..NumLeq(p, p[k])} 

AscendingRanks(p) ==
    {r \in RankChoices(p, Len(p)) :
        \A a, b \in Indices(p) : a # b => r[a] # r[b]}

\* A plausible slip: multiply without the cap at 1.
BonferroniUncapped(p) == [k \in Indices(p) |-> p[k] * Len(p) * RankLcm]

\* bonferroni_correction: np.minimum(p * len(p), 1.0), as doubles.
BonferroniFloats(p) == CapAtOne([k \in Indices(p) |-> FloatMul(p[k], Len(p))])

\* The real values of what bonferroni_correction returns.
bonferroni_correction(p) == RealsOf(BonferroniFloats(p))

\* benjamini_hochberg_correction, given the ranks its argsort produced:
\* p * len(p) / rank, capped, then the running minimum over the positions,
\* as doubles.
BenjaminiHochbergFloats(p, rank) ==
    CumMin(CapAtOne([k \in Indices(p) |-> FloatMulDiv(p[k], Len(p), rank[k])]))

\* The real values of what benjamini_hochberg_correction returns.
benjamini_hochberg_correction(p, rank) == RealsOf(BenjaminiHochbergFloats(p, rank))

\* holm_correction, given the ranks its argsort produced: the entry of rank r
\* is multiplied by len(p) - r + 1, capped, then the running minimum over the
\* positions, as doubles.
HolmFloats(p, rank) ==
    CumMin(CapAtOne([k \in Indices(p) |-> FloatMul(p[k], Len(p) - rank[k] + 1)]))

\* The real values of what holm_correction returns.
holm_correction(p, rank) == RealsOf(HolmFloats(p, rank))

PValues == {0, 100, 200, 300, 400, 500, 5000, PScale}
PVectors == UNION {[1..m -> PValues] : m \in 0..MaxM}

NotCalled == [called |-> FALSE]

CorrInit ==
    /\ mtc_p_values \in PVectors
    /\ argsort_rank \in AscendingRanks(mtc_p_values)
    /\ bonferroni_out = NotCalled
    /\ bh_out = NotCalled
    /\ holm_out = NotCalled

CallBonferroni ==
    /\ ~bonferroni_out.called
    /\ bonferroni_out' = [called |-> TRUE,
                          value |-> bonferroni_correction(mtc_p_values),
                          ulps |-> AllUlpsOf(BonferroniFloats(mtc_p_values))]
    /\ UNCHANGED <<mtc_p_values, argsort_rank, bh_out, holm_out>>

CallBenjaminiHochberg ==
    /\ ~bh_out.called
    /\ bh_out' = [called |-> TRUE,
                  value |-> benjamini_hochberg_correction(mtc_p_values, argsort_rank),
                  ulps |-> AllUlpsOf(BenjaminiHochbergFloats(mtc_p_values, argsort_rank))]
    /\ UNCHANGED <<mtc_p_values, argsort_rank, bonferroni_out, holm_out>>

CallHolm ==
    /\ ~holm_out.called
    /\ holm_out' = [called |-> TRUE,
                    value |-> holm_correction(mtc_p_values, argsort_rank),
                    ulps |-> AllUlpsOf(HolmFloats(mtc_p_values, argsort_rank))]
    /\ UNCHANGED <<mtc_p_values, argsort_rank, bonferroni_out, bh_out>>

\* ---------------------------------------------------------- specifications
vars == <<pipeVars, seqVars, corrVars>>

pipeOnlyVars == <<method, user_data, group_buckets, group_results, idx, group,
                  test_groups, results, result_keys, r_idx, p_values, corrected, pc,
                  error>>

\* The parts of the state a specification does not use stay as follows.
PipeIdle ==
    /\ method = "frequentist" /\ user_data = <<>> /\ group_buckets = <<>>
    /\ group_results = <<>> /\ idx = 0 /\ group = NoGroup /\ test_groups = <<>>
    /\ results = <<>> /\ result_keys = <<>> /\ r_idx = 0 /\ p_values = <<>>
    /\ corrected = <<>> /\ pc = "idle" /\ error = "none"

SeqIdle ==
    /\ alt_hypothesis = "two_tailed" /\ sequential = FALSE /\ stopping_threshold = 500
    /\ success_null = 0 /\ trials_null = 0 /\ success_alt = 0 /\ trials_alt = 0
    /\ prop_null = NaN /\ prop_alt = NaN /\ stat = NaN /\ pvalue = NaN /\ i = 0
    /\ evaluated = <<>> /\ stopped_at = 0 /\ returned = NotSet /\ seq_pc = "idle"
    /\ seq_error = "none"

CorrIdle ==
    /\ mtc_p_values = <<>> /\ argsort_rank = <<>>
    /\ bonferroni_out = [called |-> TRUE, value |-> <<>>, ulps |-> <<>>]
    /\ bh_out = [called |-> TRUE, value |-> <<>>, ulps |-> <<>>]
    /\ holm_out = [called |-> TRUE, value |-> <<>>, ulps |-> <<>>]

seqOnlyVars == <<alt_hypothesis, sequential, stopping_threshold, success_null,
                 trials_null, success_alt, trials_alt, prop_null, prop_alt, stat, pvalue,
                 i, evaluated, stopped_at, returned, seq_pc, seq_error>>

\* The pipeline: prompt, aggregate, test, show, correct.
Init == PipeInit /\ SeqIdle /\ CorrIdle

Next ==
    \/ Prompt /\ UNCHANGED <<seqOnlyVars, corrVars>>
    \/ AggregateStep /\ UNCHANGED <<seqOnlyVars, corrVars>>
    \/ Dispatch /\ UNCHANGED <<seqOnlyVars, corrVars>>
    \/ FrequentistTestStep /\ UNCHANGED <<seqOnlyVars, corrVars>>
    \/ BayesianTestStep /\ UNCHANGED <<seqOnlyVars, corrVars>>
    \/ ReturnResults /\ UNCHANGED <<seqOnlyVars, corrVars>>
    \/ ShowStep /\ UNCHANGED <<seqOnlyVars, corrVars>>
    \/ Correct /\ UNCHANGED <<seqOnlyVars, corrVars>>

Spec == Init /\ [][Next]_vars

\* One FrequentistABTest object: construct, conduct, return.
InitSeq == SeqInit /\ PipeIdle /\ CorrIdle

NextSeq ==
    \/ Construct /\ UNCHANGED <<pipeOnlyVars, corrVars>>
    \/ Conduct /\ UNCHANGED <<pipeOnlyVars, corrVars>>
    \/ LoopStep /\ UNCHANGED <<pipeOnlyVars, corrVars>>
    \/ LoopEnd /\ UNCHANGED <<pipeOnlyVars, corrVars>>
    \/ GetFreqResults /\ UNCHANGED <<pipeOnlyVars, corrVars>>

SpecSeq == InitSeq /\ [][NextSeq]_vars

\* One MultipleTestingCorrection object and the calls of its three methods.
InitCorr == CorrInit /\ PipeIdle /\ SeqIdle /\ alpha = DefaultAlpha

NextCorr ==
    \/ CallBonferroni /\ UNCHANGED <<pipeVars, seqVars>>
    \/ CallBenjaminiHochberg /\ UNCHANGED <<pipeVars, seqVars>>
    \/ CallHolm /\ UNCHANGED <<pipeVars, seqVars>>

SpecCorr == InitCorr /\ [][NextCorr]_vars

\* ------------------------------------------------------------------ claims
AssignmentError == "ValueError: User not assigned to a valid group."

\* The bucket of the k-th record of user_data.
BucketOf(k) == bucket_user(user_data[k].user_id, BucketCount)

\* The ranges of the map that contain bucket b, as places in the map.
Containing(b) ==
    {r \in 1..Len(group_buckets) : group_buckets[r].lo <= b /\ b < group_buckets[r].hi}

Covering == \A b \in 0..(BucketCount - 1) : Containing(b) # {}

\* C1: assign_to_group returns a group only if that group's range contains the
\* user's bucket; it raises exactly when no range contains the bucket (every
\* folded record had a containing range, and the run ends in the assignment
\* error only at a record that has none); with a covering map no batch raises.
C1_AssignOnlyWithinRange ==
    /\ (pc # "idle" /\ idx >= 1) =>
          \E r \in Containing(BucketOf(idx)) : group_buckets[r].group = group
    /\ \A k \in 1..idx : Containing(BucketOf(k)) # {}
    /\ error = AssignmentError =>
          /\ pc = "error"
          /\ idx < Len(user_data)
          /\ Containing(BucketOf(idx + 1)) = {}
    /\ (pc = "aggregate" /\ idx < Len(user_data) /\ Containing(BucketOf(idx + 1)) = {}) =>
          ~ENABLED (AggregateStep /\ pc' = "aggregate")
    /\ Covering => error # AssignmentError

\* A run that folded a record and then met one that no range contains.
C1_Witness ==
    /\ pc = "error" /\ error = AssignmentError /\ idx >= 1
    /\ Containing(BucketOf(idx)) # {}

RECURSIVE SumEvents(_, _)
SumEvents(records, k) ==
    IF k = 0 THEN 0 ELSE records[k].event + SumEvents(records, k - 1)

RECURSIVE SumField(_, _, _)
SumField(counts, groups, field) ==
    IF groups = {} THEN 0
    ELSE LET g == CHOOSE x \in groups : TRUE
         IN  counts[g][field] + SumField(counts, groups \ {g}, field)

\* Aggregation is over: every record is folded and the method is a known one.
Aggregated == pc \notin {"idle", "prompt"} /\ method # "other" /\ idx = Len(user_data)

\* C2: after aggregation the success counts sum to the sum of the outcomes, the
\* trial counts sum to N, and there is exactly one aggregate per group of the
\* map, a group that received no record keeping zero counts.
C2_AggregationTotals ==
    Aggregated =>
        /\ DOMAIN group_results = GroupNames(group_buckets)
        /\ SumField(group_results, DOMAIN group_results, "success")
              = SumEvents(user_data, Len(user_data))
        /\ SumField(group_results, DOMAIN group_results, "trials") = Len(user_data)
        /\ \A g \in DOMAIN group_results :
              (\A k \in 1..Len(user_data) :
                  assign_to_group(user_data[k].user_id, group_buckets) # g)
              => group_results[g] = [success |-> 0, trials |-> 0]

\* Three records with outcomes 0 and 2 among them, one group left empty.
C2_Witness ==
    /\ Aggregated /\ pc = "frequentist" /\ idx >= 3
    /\ \E k \in 1..idx : user_data[k].event = 0
    /\ \E k \in 1..idx : user_data[k].event = 2
    /\ \E g \in DOMAIN group_results : group_results[g].trials = 0

\* C3 (as claimed): the corrected p-values the pipeline prints are as many as
\* the collected p-values and the k-th is printed under the name of the k-th
\* non-control group.
C3_CorrectedUnderGroupNames ==
    (pc = "done" /\ method = "frequentist" /\ Len(p_values) > 1) =>
        /\ Len(corrected) = Len(p_values)
        /\ \A k \in 1..Len(corrected) : corrected[k].name = results[k].group

\* The counts each group ends with, counted from the whole input.
FinalTrials(g) ==
    Cardinality({k \in 1..Len(user_data) :
                    assign_to_group(user_data[k].user_id, group_buckets) = g})

RECURSIVE FinalSuccessUpTo(_, _)
FinalSuccessUpTo(g, k) ==
    IF k = 0 THEN 0
    ELSE FinalSuccessUpTo(g, k - 1)
         + (IF assign_to_group(user_data[k].user_id, group_buckets) = g
            THEN user_data[k].event ELSE 0)

FinalSuccess(g) == FinalSuccessUpTo(g, Len(user_data))

\* C10: aggregation is a barrier: once a frequentist test has been started
\* every record has been folded, and every test read the final totals of the
\* control group and of its test group.
C10_AggregationBarrier ==
    (method = "frequentist" /\ (pc = "frequentist" \/ Len(results) > 0)) =>
        /\ idx = Len(user_data)
        /\ \A g \in DOMAIN group_results :
              /\ group_results[g].trials = FinalTrials(g)
              /\ group_results[g].success = FinalSuccess(g)
        /\ \A k \in 1..Len(results) :
              /\ results[k].control_success = FinalSuccess("control")
              /\ results[k].control_trials = FinalTrials("control")
              /\ results[k].test_success = FinalSuccess(results[k].group)
              /\ results[k].test_trials = FinalTrials(results[k].group)

\* Two tests done on three folded records.
C10_Witness ==
    /\ method = "frequentist" /\ Len(results) >= 2 /\ idx >= 3
    /\ results[2].test_trials >= 1 /\ results[1].control_trials >= 1

\* The running p-value of sequential mode at index k, from the inputs.
RunningPvalue(k) ==
    SeqPvalue(k, success_null, success_alt, trials_null + trials_alt, alt_hypothesis)

\* The indices whose running p-value is below the stopping threshold.
Crossings ==
    {k \in 1..(trials_null + trials_alt) :
        RunningPvalue(k) # NaN /\ RunningPvalue(k) < stopping_threshold}

\* C4: in sequential mode the loop goes upward from 1 and halts at the least
\* index whose running p-value is below stopping_threshold: no later index is
\* evaluated and the stored p-value is the one computed there.
C4_StopsAtFirstCrossing ==
    (sequential /\ seq_pc \in {"loop", "computed", "returned"}) =>
        /\ Len(evaluated) = i
        /\ \A k \in 1..i : evaluated[k] = RunningPvalue(k)
        /\ Crossings # {} =>
              /\ i <= SetMin(Crossings)
              /\ seq_pc = "loop" => i < SetMin(Crossings)
              /\ seq_pc \in {"computed", "returned"} =>
                    /\ i = SetMin(Crossings)
                    /\ stopped_at = i
                    /\ pvalue = RunningPvalue(i)

\* A run that went past two indices and stopped before the last one.
C4_Witness ==
    /\ sequential /\ seq_pc = "returned"
    /\ stopped_at > 2 /\ stopped_at < trials_null + trials_alt
    /\ evaluated[1] = NaN

\* C5 (as claimed): after an early stop at index i the returned statistic,
\* proportions, p-value and significant flag are all the values computed from
\* the running totals at index i.
C5_ResultOfStoppingPoint ==
    (sequential /\ seq_pc = "returned" /\ stopped_at > 0) =>
        LET total == trials_null + trials_alt
            sn_i == InterpolatedSuccess(stopped_at, success_null, total)
            sa_i == InterpolatedSuccess(stopped_at, success_alt, total)
        IN  /\ returned.pvalue = RunningPvalue(stopped_at)
            /\ returned.significant = FloatLt(RunningPvalue(stopped_at), alpha)
            /\ returned.statistic = SeqStat(stopped_at, success_null, success_alt, total)
            /\ returned.version_a.proportion = Proportion(sn_i, stopped_at)
            /\ returned.version_b.proportion = Proportion(sa_i, stopped_at)

\* C6 (as claimed): holm_correction returns at each position i the maximum,
\* over the entries j ranked at or below i, of p_j * (m - rank_j + 1), capped
\* at 1; the values do not decrease along ascending p-values, and the result
\* is the reference library's 'holm' adjustment.
C6_HolmIsStepDown ==
    (pc = "idle" /\ seq_pc = "idle" /\ holm_out.called) =>
        LET p == mtc_p_values
            rank == argsort_rank
        IN  /\ \A k \in Indices(p) :
                  holm_out.value[k] =
                      Min(COne, SetMax({p[j] * (Len(p) - rank[j] + 1) * RankLcm :
                                          j \in {l \in Indices(p) : rank[l] <= rank[k]}}))
            /\ \A a, b \in Indices(p) : p[a] <= p[b] => holm_out.value[a] <= holm_out.value[b]
            /\ holm_out.value = SmHolm(p)

\* C7 (as claimed): benjamini_hochberg_correction returns at each position i
\* the minimum, over the entries j ranked at or above i, of p_j * m / rank_j,
\* capped at 1, whatever the order of the input.
C7_BenjaminiHochbergIsStepUp ==
    (pc = "idle" /\ seq_pc = "idle" /\ bh_out.called) =>
        LET p == mtc_p_values
            rank == argsort_rank
        IN  /\ \A k \in Indices(p) :
                  bh_out.value[k] =
                      Min(COne, SetMin({(p[j] * Len(p) * RankLcm) \div rank[j] :
                                          j \in {l \in Indices(p) : rank[l] >= rank[k]}}))
            /\ bh_out.value = SmFdrBh(p)

\* The vector v with the entries at a and b exchanged.
Swap(v, a, b) ==
    [k \in Indices(v) |-> IF k = a THEN v[b] ELSE IF k = b THEN v[a] ELSE v[k]]

\* C8: bonferroni_correction returns at each position i exactly
\* min(p_i * m, 1): same length, same order, exchanging two inputs exchanges
\* the two outputs, and [0.01, 0.02, 0.03, 0.04] gives [0.04, 0.08, 0.12, 0.16].
C8_BonferroniElementwise ==
    (pc = "idle" /\ seq_pc = "idle" /\ bonferroni_out.called) =>
        LET p == mtc_p_values
            out == bonferroni_out.value
        IN  /\ Len(out) = Len(p)
            /\ \A k \in Indices(p) :
                  out[k] = (IF p[k] * Len(p) <= PScale THEN p[k] * Len(p) ELSE PScale) * RankLcm
            /\ \A a, b \in Indices(p) : bonferroni_correction(Swap(p, a, b)) = Swap(out, a, b)
            /\ p = <<100, 200, 300, 400>> =>
                  out = <<400 * RankLcm, 800 * RankLcm, 1200 * RankLcm, 1600 * RankLcm>>

\* The scenario's vector, corrected.
C8_Witness ==
    /\ pc = "idle" /\ seq_pc = "idle" /\ bonferroni_out.called
    /\ mtc_p_values = <<100, 200, 300, 400>>
    /\ bonferroni_out.value[4] = 1600 * RankLcm

AllCalled ==
    /\ pc = "idle" /\ seq_pc = "idle"
    /\ bonferroni_out.called /\ bh_out.called /\ holm_out.called

\* The double a correction returned at position k.
Returned(out, k) == Float(out.value[k], out.ulps[k])

\* C9 (as claimed): for m > 1, at every position the Bonferroni-corrected
\* value is at least the original p-value, the Holm-corrected value is at
\* most the Bonferroni-corrected one, and the BH-corrected value is at most
\* the Holm-corrected one.
C9_CorrectionOrdering ==
    (AllCalled /\ Len(mtc_p_values) > 1) =>
        \A k \in Indices(mtc_p_values) :
            /\ Returned(bonferroni_out, k) >= Float(mtc_p_values[k] * RankLcm, 0)
            /\ Returned(holm_out, k) <= Returned(bonferroni_out, k)
            /\ Returned(bh_out, k) <= Returned(holm_out, k)

\* The same ordering of the real values the three corrections compute, which
\* holds: the code departs from the claim only by the rounding of its doubles.
CorrectionOrderingOfReals ==
    (AllCalled /\ Len(mtc_p_values) > 1) =>
        \A k \in Indices(mtc_p_values) :
            /\ bonferroni_out.value[k] >= mtc_p_values[k] * RankLcm
            /\ holm_out.value[k] <= bonferroni_out.value[k]
            /\ bh_out.value[k] <= holm_out.value[k]

\* The correction was invoked: it returned or it rejected the method's name.
CorrectionInvoked == corrected # <<>> \/ error = "ValueError: method not recognized"

\* The collected vector is the full one: the k-th p-value is that of the k-th
\* non-control group of the map.
FullVector ==
    /\ r_idx = Len(results)
    /\ Len(p_values) = Len(TestGroups(group_buckets))
    /\ \A k \in 1..Len(p_values) :
          /\ results[k].group = TestGroups(group_buckets)[k]
          /\ p_values[k] = results[k].p_value
    /\ \A a, b \in 1..Len(results) : a # b => results[a].group # results[b].group

\* C11: in the pipeline the correction is invoked strictly after the p-value
\* of every non-control group has been collected (while an entry is still to
\* be shown nothing is corrected and the step after the loop cannot be taken),
\* and the vector it is given, or the one found too short to correct, holds
\* one p-value per non-control group, in their order, none missing and none
\* twice.
C11_CorrectionAfterAllPvalues ==
    /\ CorrectionInvoked => (method = "frequentist" /\ Len(p_values) > 1 /\ FullVector)
    /\ (pc = "done" /\ method = "frequentist") => FullVector
    /\ (pc = "show" /\ r_idx < Len(results)) =>
          /\ ~CorrectionInvoked
          /\ ~ENABLED Correct
    /\ (pc = "done" /\ method = "frequentist" /\ Len(p_values) > 1) =>
          \E correction_method \in CorrectionMethods :
              Len(corrected) = Min(Len(result_keys), Len(p_values))
              /\ \A k \in 1..Len(corrected) :
                    corrected[k].value =
                        apply_statsmodels_corrections(p_values, correction_method)[k]

\* A correction of the two p-values of the three-way split, both numbers.
C11_Witness ==
    /\ pc = "done" /\ method = "frequentist" /\ corrected # <<>>
    /\ Len(p_values) = 2 /\ p_values[1] # NaN /\ p_values[2] # NaN
    /\ p_values[1] # p_values[2]

\* Two aggregates added group by group.
MergeCounts(a, b) ==
    [g \in DOMAIN a |-> [success |-> a[g].success + b[g].success,
                         trials |-> a[g].trials + b[g].trials]]

\* The loop has just folded the whole input (group_results is not written
\* after that).
AggregationJustOver == pc = "aggregate" /\ idx = Len(user_data)

\* C12: for a list of assignable records, the counts the loop produced are
\* those it produces on every permutation of the list, and aggregating a
\* prefix and the rest separately and adding the counts group by group gives
\* the same counts.
C12_AggregationOrderFree ==
    AggregationJustOver =>
        LET n == Len(user_data)
        IN  /\ \A f \in Permutations(1..n) :
                  AggregateUpTo([k \in 1..n |-> user_data[f[k]]], group_buckets, n)
                      = group_results
            /\ \A k \in 0..n :
                  MergeCounts(
                      AggregateUpTo(SubSeq(user_data, 1, k), group_buckets, k),
                      AggregateUpTo(SubSeq(user_data, k + 1, n), group_buckets, n - k))
                      = group_results

\* Three records folded, two of one group with different outcomes around one
\* of another group.
C12_Witness ==
    /\ AggregationJustOver /\ idx = 3
    /\ user_data[1].user_id = user_data[3].user_id
    /\ user_data[1].event # user_data[3].event
    /\ assign_to_group(user_data[2].user_id, group_buckets)
          # assign_to_group(user_data[1].user_id, group_buckets)

\* The places of the records that no range of the map contains.
Unassignable == {k \in 1..Len(user_data) : Containing(BucketOf(k)) = {}}

\* C13: if some record of the input cannot be assigned, run_experiment fails
\* with the assignment error of assign_to_group wherever that record sits:
\* the loop folds the records before the first such record and can then only
\* raise, no test group is ever selected, no test is run and no result is
\* returned to the pipeline.
C13_UnassignableFailsRun ==
    (pc # "idle" /\ method # "other" /\ Unassignable # {}) =>
        /\ pc \in {"prompt", "aggregate", "error"}
        /\ idx < SetMin(Unassignable)
        /\ test_groups = <<>> /\ results = <<>> /\ result_keys = <<>>
        /\ p_values = <<>> /\ corrected = <<>>
        /\ pc = "error" => (error = AssignmentError /\ idx = SetMin(Unassignable) - 1)
        /\ pc = "aggregate" => (ENABLED AggregateStep /\ ~ENABLED Dispatch)

\* The run failed at its third record after folding two.
C13_Witness ==
    /\ pc = "error" /\ error = AssignmentError
    /\ Len(user_data) = 3 /\ idx = 2 /\ Unassignable = {3}
    /\ group_results["control"].trials = 1 /\ group_results["test1"].trials = 1

\* run_frequentist_test has returned its dictionary to the pipeline.
FrequentistReturned == method = "frequentist" /\ pc \in {"show", "done"}

\* C14: a frequentist run that returns holds exactly one result per group
\* other than "control" and none for "control"; every result, from the moment
\* it is stored, is what a FrequentistABTest of its own computes from the
\* control group's counts as the null arm and that group's counts as the
\* alternative arm, so it depends neither on the place of the group in the
\* order of the tests nor on the counts of the other test groups.
C14_OneIndependentResultPerGroup ==
    /\ FrequentistReturned =>
          /\ {results[k].group : k \in 1..Len(results)} = GroupNames(group_buckets) \ {"control"}
          /\ Len(results) = Cardinality(GroupNames(group_buckets) \ {"control"})
    /\ (method = "frequentist" /\ pc # "idle") =>
          \A k \in 1..Len(results) :
              LET g == results[k].group
                  r == conduct_experiment(alpha, "two_tailed",
                                          group_results["control"].success,
                                          group_results["control"].trials,
                                          group_results[g].success,
                                          group_results[g].trials)
              IN  /\ g # "control"
                  /\ r.error = "none"
                  /\ results[k].statistic = r.stat
                  /\ results[k].p_value = r.pvalue
                  /\ results[k].control_success = group_results["control"].success
                  /\ results[k].control_trials = group_results["control"].trials
                  /\ results[k].test_success = group_results[g].success
                  /\ results[k].test_trials = group_results[g].trials

\* test2 is tested before test1, with different counts and different results.
C14_Witness ==
    /\ FrequentistReturned /\ Len(results) = 2
    /\ results[1].group = "test2" /\ results[2].group = "test1"
    /\ results[1].test_success # results[2].test_success
    /\ results[1].statistic # NaN /\ results[2].statistic # NaN
    /\ results[1].statistic # results[2].statistic

AlphaOutOfRange == ~(0 < alpha /\ alpha < PScale)

\* What constructing the object can do from a state where it is not yet
\* constructed.
ConstructionCanFail == ENABLED (Construct /\ seq_pc' = "error" /\ seq_error' = "ValueError")
ConstructionCanSucceed == ENABLED (Construct /\ seq_pc' = "constructed" /\ seq_error' = "none")

\* After a failed construction there is no test object: nothing was computed
\* and nothing can be.
NoTestAfterFailedConstruction ==
    seq_error = "ValueError" =>
        /\ seq_pc = "error"
        /\ prop_null = NaN /\ prop_alt = NaN /\ stat = NaN /\ pvalue = NaN
        /\ i = 0 /\ evaluated = <<>> /\ returned = NotSet
        /\ ~ENABLED Conduct /\ ~ENABLED GetFreqResults

\* C15 (as claimed): constructing a FrequentistABTest fails with the
\* configuration error exactly when alpha is not strictly between 0 and 1 or
\* the alt_hypothesis argument is not one of one_tailed, two_tailed, and
\* succeeds otherwise; no test is conducted after a failed construction.
C15_ConstructionFailsOnInvalid ==
    /\ seq_pc = "new" =>
          LET invalid == AlphaOutOfRange
                         \/ alt_hypothesis \notin {"one_tailed", "two_tailed"}
          IN  /\ ConstructionCanFail <=> invalid
              /\ ConstructionCanSucceed <=> ~invalid
    /\ NoTestAfterFailedConstruction

\* C15 (amended): the same, with the alt_hypothesis argument compared after
\* lower-casing it.
C15_ConstructionFailsOnInvalidLowered ==
    /\ seq_pc = "new" =>
          LET invalid == AlphaOutOfRange
                         \/ Lower(alt_hypothesis) \notin {"one_tailed", "two_tailed"}
          IN  /\ ConstructionCanFail <=> invalid
              /\ ConstructionCanSucceed <=> ~invalid
    /\ NoTestAfterFailedConstruction

\* A construction with a valid hypothesis and alpha = 1 has failed.
C15_Witness ==
    /\ seq_pc = "error" /\ seq_error = "ValueError"
    /\ alpha = PScale /\ alt_hypothesis = "two_tailed"
    /\ returned = NotSet

\* The group the next frequentist test is about.
NextTestGroup == test_groups[Len(results) + 1]

\* Some group of the map received no record.
SomeGroupEmpty == \E g \in DOMAIN group_results : group_results[g].trials = 0

\* C16: conduct_experiment fails with a division error whenever trials_null
\* or trials_alt is 0 and returns no statistic and no p-value (a test on an
\* empty arm can only raise, and no stored result has an empty arm); in a
\* frequentist pipeline run this happens exactly when the control group or a
\* test group received no record, and then no result reaches the pipeline.
C16_ZeroTrialsDivisionError ==
    /\ (pc = "frequentist" /\ Len(results) < Len(test_groups)
         /\ (group_results["control"].trials = 0
             \/ group_results[NextTestGroup].trials = 0)) =>
          /\ ENABLED (FrequentistTestStep /\ error' = "ZeroDivisionError")
          /\ ~ENABLED (FrequentistTestStep /\ pc' # "error")
    /\ error = "ZeroDivisionError" =>
          /\ pc = "error" /\ method = "frequentist"
          /\ Len(results) < Len(test_groups)
          /\ (group_results["control"].trials = 0
              \/ group_results[NextTestGroup].trials = 0)
          /\ result_keys = <<>> /\ p_values = <<>> /\ corrected = <<>>
    /\ (method = "frequentist" /\ pc # "idle") =>
          \A k \in 1..Len(results) :
              results[k].control_trials > 0 /\ results[k].test_trials > 0
    /\ (method = "frequentist" /\ Aggregated /\ SomeGroupEmpty) =>
          /\ pc \in {"aggregate", "frequentist", "error"}
          /\ pc = "error" => error = "ZeroDivisionError"
    /\ (method = "frequentist" /\ Aggregated /\ ~SomeGroupEmpty) =>
          error # "ZeroDivisionError"

\* The first test group was tested; the second one is empty and its test
\* raised.
C16_Witness ==
    /\ pc = "error" /\ error = "ZeroDivisionError"
    /\ Len(results) = 1 /\ idx >= 2
    /\ group_results["control"].trials >= 1
    /\ group_results[NextTestGroup].trials = 0

\* The pooled proportion of a stored result is 0 or 1, so its pooled standard
\* error is 0.
PooledSeZero(r) ==
    LET S == r.control_success + r.test_success
        T == r.control_trials + r.test_trials
    IN  S = 0 \/ S = T

\* C17 (as claimed), batch mode as the pipeline runs it: whenever the pooled
\* standard error of a test is 0 with both trial counts positive, the test
\* does not fail and its statistic and p-value are reported as NaN.
C17_DegenerateReportedAsNaN ==
    (method = "frequentist" /\ pc # "idle") =>
        \A k \in 1..Len(results) :
            (results[k].control_trials > 0 /\ results[k].test_trials > 0
             /\ PooledSeZero(results[k])) =>
                (results[k].statistic = NaN /\ results[k].p_value = NaN)

\* The pooled proportion of the running totals at index k of sequential mode
\* is 0 or 1.
RunningPooledSeZero(k) ==
    LET total == trials_null + trials_alt
        s == InterpolatedSuccess(k, success_null, total)
             + InterpolatedSuccess(k, success_alt, total)
    IN  s = 0 \/ s = 2 * k

\* The part of C17 that holds, on counts with success <= trials: in batch
\* mode a zero pooled standard error gives a NaN statistic and p-value and no
\* error, and every step of sequential mode with a zero pooled standard error
\* yields a NaN p-value and does not stop the loop.
DegenerateIsNaNOnValidCounts ==
    /\ (seq_pc \in {"loop", "computed", "returned"}
         /\ (success_null + success_alt = 0
             \/ success_null + success_alt = trials_null + trials_alt)) =>
          /\ stat = NaN /\ seq_error = "none"
          /\ (~sequential => pvalue = NaN)
          /\ (seq_pc = "returned" => returned.statistic = NaN)
    /\ (sequential /\ seq_pc \in {"loop", "computed", "returned"}) =>
          \A k \in 1..Len(evaluated) :
              RunningPooledSeZero(k) => (evaluated[k] = NaN /\ stopped_at # k)

\* C18 (as claimed): a record whose outcome is neither 0 nor 1 is rejected by
\* aggregation: no such record is ever folded into the counts, so every
\* success count is at most its trial count.
C18_InvalidOutcomeRejected ==
    (pc # "idle" /\ method # "other") =>
        /\ \A k \in 1..idx : user_data[k].event \in {0, 1}
        /\ \A g \in DOMAIN group_results :
              group_results[g].success <= group_results[g].trials

\* What holds of the sequential loop whether or not the threshold is crossed:
\* the index counts the iterations performed and never passes trials_null +
\* trials_alt, at that index the only step leaves the loop, and a finished
\* run that met no running p-value below stopping_threshold performed exactly
\* trials_null + trials_alt iterations and holds the p-value of the last index.
SequentialLoopBounded ==
    /\ i <= trials_null + trials_alt
    /\ Len(evaluated) = i
    /\ (seq_pc = "loop" /\ i = trials_null + trials_alt) =>
          (ENABLED LoopEnd /\ ~ENABLED LoopStep)
    /\ (seq_pc \in {"computed", "returned"} /\ Crossings = {}) =>
          /\ i = trials_null + trials_alt
          /\ stopped_at = 0
          /\ pvalue = RunningPvalue(trials_null + trials_alt)

\* C19 (as claimed): the sequential loop always terminates and never runs
\* past index trials_null + trials_alt; when the running p-value never falls
\* below stopping_threshold it performs exactly trials_null + trials_alt
\* iterations and finishes with the p-value of the last index; otherwise it
\* finishes earlier, after fewer iterations than that.
C19_SequentialLoopTerminates ==
    (sequential /\ seq_pc \in {"loop", "computed", "returned"}) =>
        /\ SequentialLoopBounded
        /\ (seq_pc \in {"computed", "returned"} /\ Crossings # {}) =>
              /\ i = SetMin(Crossings)
              /\ stopped_at = i
              /\ i < trials_null + trials_alt

\* C19 (amended): the same, except that a run with a crossing finishes at its
\* first crossing, which is earlier than the last index only when the first
\* crossing is not the last index itself.
C19_SequentialLoopStopsAtFirstCrossing ==
    (sequential /\ seq_pc \in {"loop", "computed", "returned"}) =>
        /\ SequentialLoopBounded
        /\ (seq_pc \in {"computed", "returned"} /\ Crossings # {}) =>
              /\ i = SetMin(Crossings)
              /\ stopped_at = i
              /\ i < trials_null + trials_alt
                    <=> SetMin(Crossings) # trials_null + trials_alt

\* 0 of 1 against 1 of 1, one-tailed, threshold 0.5: the running p-value is
\* NaN at index 1 and first below the threshold at index 2, the last one, so
\* the loop stopped by the break after all its iterations.
C19_Witness ==
    /\ sequential /\ seq_pc = "returned"
    /\ success_null = 0 /\ trials_null = 1 /\ success_alt = 1 /\ trials_alt = 1
    /\ alt_hypothesis = "one_tailed" /\ stopping_threshold = 5000
    /\ Crossings = {2} /\ i = 2 /\ stopped_at = 2
    /\ evaluated[1] = NaN /\ returned.pvalue = evaluated[2]

\* The group of the first range of the map, in its order, that contains b.
FirstContaining(b) == group_buckets[SetMin(Containing(b))].group

\* C20: when ranges of the map overlap, assign_to_group does not fail: for a
\* bucket that several ranges contain it returns the group that comes first
\* in the map's order among those whose range contains the bucket, and that
\* is the group the record is folded into.
C20_FirstMatchingRangeWins ==
    (pc # "idle" /\ method # "other") =>
        /\ \A k \in 1..Len(user_data) :
              Cardinality(Containing(BucketOf(k))) >= 2 =>
                  /\ assign_to_group(user_data[k].user_id, group_buckets) # NoGroup
                  /\ assign_to_group(user_data[k].user_id, group_buckets)
                        = FirstContaining(BucketOf(k))
        /\ (idx >= 1 /\ Cardinality(Containing(BucketOf(idx))) >= 2) =>
              group = FirstContaining(BucketOf(idx))
        /\ (pc = "aggregate" /\ idx < Len(user_data)
             /\ Cardinality(Containing(BucketOf(idx + 1))) >= 2) =>
              /\ ENABLED (AggregateStep /\ pc' = "aggregate")
              /\ ~ENABLED (AggregateStep /\ pc' = "error")

\* Bucket 61 lies in the ranges of test1 and test2, and the record went to
\* test1; before it a record of bucket 15, in control and test1, went to
\* control.
C20_Witness ==
    /\ pc = "aggregate" /\ idx = 2
    /\ BucketOf(1) = 15 /\ BucketOf(2) = 61
    /\ Cardinality(Containing(15)) = 2 /\ Cardinality(Containing(61)) = 2
    /\ group = "test1"
    /\ group_results["control"].trials = 1 /\ group_results["test2"].trials = 0

\* Every record of the input has outcome 0 or 1.
AllBinary == \A k \in 1..Len(user_data) : user_data[k].event \in {0, 1}

\* The loop is at a record that can be assigned.
AtAssignableRecord ==
    /\ pc = "aggregate" /\ idx < Len(user_data)
    /\ Containing(BucketOf(idx + 1)) # {}

\* C21: loop invariant of the aggregation when every outcome is 0 or 1: after
\* k records are folded the trial counts of all groups sum to k and every
\* group has 0 <= success <= trials; and the step that folds the next record
\* changes the counts of the assigned group (one more trial, the outcome more
\* successes) and of no other group.
C21_AggregationLoopInvariant ==
    (pc \notin {"idle", "prompt"} /\ method # "other" /\ AllBinary) =>
        /\ SumField(group_results, DOMAIN group_results, "trials") = idx
        /\ \A g \in DOMAIN group_results :
              /\ 0 <= group_results[g].success
              /\ group_results[g].success <= group_results[g].trials
        /\ AtAssignableRecord =>
              LET assigned == FirstContaining(BucketOf(idx + 1))
              IN  /\ ENABLED (AggregateStep /\ idx' = idx + 1
                               /\ group_results'[assigned].trials
                                     = group_results[assigned].trials + 1
                               /\ group_results'[assigned].success
                                     = group_results[assigned].success
                                       + user_data[idx + 1].event)
                  /\ ~ENABLED (AggregateStep
                               /\ \E g \in DOMAIN group_results :
                                     /\ g # assigned
                                     /\ group_results'[g] # group_results[g])
                  /\ ~ENABLED (AggregateStep
                               /\ group_results'[assigned] = group_results[assigned])

\* Three records folded into two groups, outcomes 0 and 1 among them.
C21_Witness ==
    /\ pc = "aggregate" /\ idx = 3 /\ AllBinary
    /\ \E k \in 1..3 : user_data[k].event = 0
    /\ \E k \in 1..3 : user_data[k].event = 1
    /\ Cardinality({g \in DOMAIN group_results : group_results[g].trials > 0}) >= 2
    /\ \E g \in DOMAIN group_results :
          group_results[g].success = 1 /\ group_results[g].trials = 2

\* The values the loop body computes at the last index of sequential mode:
\* prop_null_i, prop_alt_i and pooled_prop_i, in units of 1/PScale, and stat_i.
LastIndex == trials_null + trials_alt
LastPropNull == Proportion(InterpolatedSuccess(LastIndex, success_null, LastIndex), LastIndex)
LastPropAlt == Proportion(InterpolatedSuccess(LastIndex, success_alt, LastIndex), LastIndex)
LastPooledProp ==
    Proportion(InterpolatedSuccess(LastIndex, success_null, LastIndex)
               + InterpolatedSuccess(LastIndex, success_alt, LastIndex), 2 * LastIndex)
LastStat == SeqStat(LastIndex, success_null, success_alt, LastIndex)

\* pooled_prop of batch mode, in units of 1/PScale.
BatchPooledProp == Proportion(success_null + success_alt, trials_null + trials_alt)

\* C22 (as claimed): when no running p-value is below the stopping threshold,
\* sequential mode ends on the full data: the proportions, the pooled
\* proportion and the statistic it computes at the last index are those of
\* batch mode, and the p-value it reports is the batch p-value.
C22_SequentialEqualsBatch ==
    (sequential /\ seq_pc = "returned" /\ Crossings = {}) =>
        /\ LastPropNull = prop_null
        /\ LastPropAlt = prop_alt
        /\ LastPooledProp = BatchPooledProp
        /\ LastStat = stat
        /\ returned.pvalue = calculate_pvalue(stat, alt_hypothesis)
====
